---- MODULE Spec2Model ----
(***************************************************************************)
(* kmake.cpp: a std::optional<int> threaded through ten .and_then(half)    *)
(* calls.  The chain is modelled call by call; every invocation of half is *)
(* logged so that the short-circuit behaviour of and_then is observable.   *)
(* NumRuns independent executions of the same chain are stepped side by    *)
(* side to state determinism.                                              *)
(***************************************************************************)
EXTENDS Integers, Sequences, FiniteSets, TLC

VARIABLES initial, n, current, pc, trace, result

vars == <<initial, n, current, pc, trace, result>>

\* ---------------------------------------------------------------- bounds
MaxInit == 24
NumRuns == 2

\* ------------------------------------------------------------- constants
INT_BITS == 32
NumSteps == 10
SampleInitial == 20

\* 2^(INT_BITS-1) - 1, written so that no intermediate value exceeds it.
INT_MAX == (2^(INT_BITS - 2) - 1) * 2 + 1
INT_MIN == -INT_MAX - 1

Runs == 1..NumRuns

\* Values the chain is started from: a dense band around zero, the sample
\* value, powers of two around 2^10 in both signs, and the extremes of int.
Inputs ==
    (-MaxInit..MaxInit)
        \cup {SampleInitial, 512, -512, 1024, -1024, 1536, 2048, -2048, 3072,
              1073741824, -1073741824, INT_MAX - 1, INT_MAX,
              INT_MIN + 1, INT_MIN}

\* ------------------------------------------------------- std::optional<int>
nullopt == [has_value |-> FALSE]

Present(v) == [has_value |-> TRUE, value |-> v]

\* -------------------------------------------------- C++ integer arithmetic
\* a / b and a % b for b > 0: the quotient is truncated towards zero and the
\* remainder takes the sign of the dividend.
CDiv(a, b) == IF a < 0 /\ a % b /= 0 THEN (a \div b) + 1 ELSE a \div b

CRem(a, b) == IF a < 0 /\ a % b /= 0 THEN (a % b) - b ELSE a % b

\* The operand pairs for which / and % have undefined behaviour.
DivUB(a, b) == b = 0 \/ (a = INT_MIN /\ b = -1)

\* ------------------------------------------------------------------- half
\* Faulty variants of half, used to show that the properties below depend on
\* its code: oddness tested as x % 2 == 1, which misses negative odd values;
half_odd_test(x) == IF CRem(x, 2) /= 1 THEN Present(CDiv(x, 2)) ELSE nullopt

\* no parity test at all;
half_always(x) == Present(CDiv(x, 2))

\* an odd value rounded up instead of rejected;
half_round_up(x) ==
    IF CRem(x, 2) = 0 THEN Present(CDiv(x, 2)) ELSE Present(CDiv(x, 2) + 1)

\* the argument returned undivided;
half_no_divide(x) == IF CRem(x, 2) = 0 THEN Present(x) ELSE nullopt

\* a division by 4;
half_quarter(x) == IF CRem(x, 2) = 0 THEN Present(CDiv(x, 4)) ELSE nullopt

\* a static call budget shared by every run of the chain.
half_static(x) ==
    IF \E r \in Runs : Len(trace[r]) >= 2
        THEN nullopt
        ELSE IF CRem(x, 2) = 0 THEN Present(CDiv(x, 2)) ELSE nullopt

half(x) == IF CRem(x, 2) = 0 THEN Present(CDiv(x, 2)) ELSE nullopt

\* half evaluates x % 2 and x / 2.
half_ub(x) == DivUB(x, 2)

\* --------------------------------------------------------------- and_then
\* opt.and_then(half): `called` lists the arguments half is invoked with
\* (none or one), `ret` is the optional the call evaluates to.
\* Faulty variants: an empty receiver treated as value_or(0);
and_then_value_or(opt) ==
    IF opt.has_value
        THEN [called |-> <<opt.value>>, ret |-> half(opt.value)]
        ELSE [called |-> <<0>>, ret |-> half(0)]

\* an empty receiver turned into a value without calling half;
and_then_resurrect(opt) ==
    IF opt.has_value
        THEN [called |-> <<opt.value>>, ret |-> half(opt.value)]
        ELSE [called |-> <<>>, ret |-> Present(0)]

\* the value returned by half dropped in favour of the receiver's;
and_then_drop(opt) ==
    IF opt.has_value
        THEN [called |-> <<opt.value>>,
              ret |-> IF half(opt.value).has_value THEN opt ELSE nullopt]
        ELSE [called |-> <<>>, ret |-> nullopt]

\* half called before the receiver is tested.
and_then_eager(opt) ==
    IF opt.has_value
        THEN [called |-> <<opt.value>>, ret |-> half(opt.value)]
        ELSE [called |-> <<0>>, ret |-> nullopt]

and_then(opt) ==
    IF opt.has_value
        THEN [called |-> <<opt.value>>, ret |-> half(opt.value)]
        ELSE [called |-> <<>>, ret |-> nullopt]

\* ------------------------------------------------------------------- main
Init ==
    /\ initial \in Inputs
    /\ n \in 0..NumSteps
    /\ current = [r \in Runs |-> Present(initial)]
    /\ pc = [r \in Runs |-> 1]
    /\ trace = [r \in Runs |-> <<>>]
    /\ result = [r \in Runs |-> <<>>]

\* The pc[r]-th .and_then(half) of run r.  Each invocation of half is logged
\* with the step it belongs to, the receiver of the and_then, the argument
\* and what half returned for it.
CallAndThen(r) ==
    /\ pc[r] <= n
    /\ LET c == and_then(current[r])
           log == [k \in 1..Len(c.called) |->
                      [step |-> pc[r], on |-> current[r],
                       arg |-> c.called[k], ret |-> half(c.called[k]),
                       ub |-> half_ub(c.called[k])]]
       IN  /\ current' = [current EXCEPT ![r] = c.ret]
           /\ trace' = [trace EXCEPT ![r] = @ \o log]
    /\ pc' = [pc EXCEPT ![r] = @ + 1]
    /\ UNCHANGED <<initial, n, result>>

\* auto result = <the chain>;
AssignResult(r) ==
    /\ pc[r] = n + 1
    /\ result' = [result EXCEPT ![r] = <<current[r]>>]
    /\ pc' = [pc EXCEPT ![r] = @ + 1]
    /\ UNCHANGED <<initial, n, current, trace>>

Next == \E r \in Runs : CallAndThen(r) \/ AssignResult(r)

Spec == Init /\ [][Next]_vars

\* A sequential program keeps running until main returns.
FairSpec == Spec /\ \A r \in Runs : WF_vars(CallAndThen(r) \/ AssignResult(r))

\* ---------------------------------------------------------- observations
\* Run r has executed `auto result = ...`.
Done(r) == pc[r] = n + 2

\* The invocation counter of the i-th step of run r.
Calls(r, i) == Cardinality({k \in DOMAIN trace[r] : trace[r][k].step = i})

\* The steps of run r whose call of half returned Absent.
AbsentSteps(r) ==
    {trace[r][k].step : k \in {j \in DOMAIN trace[r] : ~trace[r][j].ret.has_value}}

Min(S) == CHOOSE x \in S : \A y \in S : x <= y

Pow2(k) == 2^k

\* -|x|, which unlike |x| exists for every int.
NegAbs(x) == IF x > 0 THEN -x ELSE x

\* The number of times 2 divides x, for x /= 0.
RECURSIVE Val2(_)
Val2(x) == IF x % 2 /= 0 THEN 0 ELSE 1 + Val2(x \div 2)

\* ----------------------------------------------------------------- claims
\* C1 (short-circuit): half is invoked only by an and_then whose receiver is
\* Present, with the value it carries; once an invocation has returned
\* Absent, the invocation counter of every later step is 0.
C1_ShortCircuit ==
    \A r \in Runs : \A k \in DOMAIN trace[r] :
        LET e == trace[r][k]
        IN  /\ e.on.has_value
            /\ e.arg = e.on.value
            /\ ~e.ret.has_value =>
                   \A j \in (e.step + 1)..NumSteps : Calls(r, j) = 0

C1_Witness ==
    \E r \in Runs :
        /\ Done(r)
        /\ \E k \in DOMAIN trace[r] :
               /\ ~trace[r][k].ret.has_value
               /\ trace[r][k].step + 2 <= n

\* C2 (absorption): an Absent current value stays Absent in every later
\* state, and a finished run in which some invocation of half returned
\* Absent has the result Absent.
C2_Absorption ==
    /\ [][\A r \in Runs :
              ~current[r].has_value => ~current'[r].has_value]_vars
    /\ [](\A r \in Runs :
              (Done(r) /\ AbsentSteps(r) /= {}) => result[r] = <<nullopt>>)

C2_Witness ==
    \E r \in Runs :
        /\ Done(r)
        /\ result[r] = <<nullopt>>
        /\ \E s \in AbsentSteps(r) : s + 2 <= n

\* C3 (success threading): the invocations of a run are of steps 1, 2, ...
\* in that order, the first receives initial and each later one the value
\* returned by the one before; a finished run of n >= 1 steps in which every
\* invocation returned Present has invoked each of the n steps exactly once
\* and its result is what step n returned.
C3_SuccessThreading ==
    \A r \in Runs :
        (AbsentSteps(r) = {}) =>
            /\ \A k \in DOMAIN trace[r] :
                   /\ trace[r][k].step = k
                   /\ trace[r][k].arg =
                          IF k = 1 THEN initial ELSE trace[r][k - 1].ret.value
            /\ (Done(r) /\ n >= 1) =>
                   /\ Len(trace[r]) = n
                   /\ \A i \in 1..n : Calls(r, i) = 1
                   /\ result[r] = <<trace[r][n].ret>>

C3_Witness ==
    \E r \in Runs :
        /\ Done(r)
        /\ n >= 3
        /\ AbsentSteps(r) = {}
        /\ Len(trace[r]) = n
        /\ result[r] = <<trace[r][n].ret>>
        /\ result[r][1].has_value

\* C4 (sample chain): from 20 through ten steps of half, step 1 returns
\* Present(10), step 2 Present(5), step 3 Absent; half is invoked 3 times,
\* steps 4..10 never, and the result is Absent.
C4_SampleTrace ==
    \A r \in Runs :
        (initial = SampleInitial /\ n = NumSteps /\ Done(r)) =>
            /\ Len(trace[r]) = 3
            /\ \A k \in 1..3 : trace[r][k].step = k
            /\ trace[r][1].ret = Present(10)
            /\ trace[r][2].ret = Present(5)
            /\ trace[r][3].ret = nullopt
            /\ \A j \in 4..NumSteps : Calls(r, j) = 0
            /\ result[r] = <<nullopt>>

C4_Witness ==
    /\ initial = SampleInitial
    /\ n = NumSteps
    /\ \A r \in Runs : Done(r) /\ Len(trace[r]) = 3

\* C5: from 1024 through ten steps of half, every step is invoked and
\* returns Present, and the result is Present(1).
C5_PowerOfTwo ==
    \A r \in Runs :
        (initial = 1024 /\ n = NumSteps /\ Done(r)) =>
            /\ \A i \in 1..NumSteps : Calls(r, i) = 1
            /\ AbsentSteps(r) = {}
            /\ result[r] = <<Present(1)>>

C5_Witness ==
    /\ initial = 1024
    /\ n = NumSteps
    /\ \E r \in Runs : Done(r) /\ Len(trace[r]) = NumSteps

\* C6 (half is total): every invocation of half, for arguments down to
\* INT_MIN and up to INT_MAX, evaluates no undefined / or %, returns
\* Present(q) with 2*q equal to the argument when the argument is even and
\* Absent when it is odd; the one-step chain from 3 is Absent after its
\* single invocation.
C6_HalfTotal ==
    \A r \in Runs :
        /\ \A k \in DOMAIN trace[r] :
               LET e == trace[r][k]
               IN  /\ ~e.ub
                   /\ e.arg % 2 = 0 =>
                          /\ e.ret.has_value
                          /\ e.ret.value \in INT_MIN..INT_MAX
                          /\ NegAbs(e.ret.value) >= NegAbs(e.arg)
                          /\ 2 * e.ret.value = e.arg
                   /\ e.arg % 2 /= 0 => e.ret = nullopt
        /\ (initial = 3 /\ n = 1 /\ Done(r)) =>
               /\ Len(trace[r]) = 1
               /\ result[r] = <<nullopt>>

C6_Witness ==
    \E r \in Runs :
        /\ Len(trace[r]) >= 2
        /\ trace[r][1].arg = INT_MIN
        /\ trace[r][1].ret.has_value
        /\ trace[r][2].arg < 0

C8_Termination ==
    /\ <>(\A r \in Runs : Done(r))
    /\ [](\A r \in Runs :
              /\ Len(trace[r]) <= n
              /\ Len(trace[r]) <= NumSteps
              /\ Done(r) =>
                     Len(trace[r]) =
                         IF AbsentSteps(r) /= {} THEN Min(AbsentSteps(r)) ELSE n)

C8_Witness ==
    /\ \A r \in Runs : Done(r)
    /\ \E r \in Runs : AbsentSteps(r) /= {} /\ Min(AbsentSteps(r)) + 2 <= n
    /\ \E r \in Runs : Len(trace[r]) >= 2

\* C9: the ten-step chain of half ends in Present(initial / 1024) exactly
\* when 1024 divides initial, with all ten steps invoked; otherwise it ends
\* in Absent after k + 1 invocations, k < 10 being the number of times 2
\* divides initial.
C9_TenHalves ==
    \A r \in Runs :
        (n = NumSteps /\ Done(r)) =>
            IF initial % Pow2(NumSteps) = 0
                THEN /\ result[r] = <<Present(initial \div Pow2(NumSteps))>>
                     /\ Len(trace[r]) = NumSteps
                ELSE /\ result[r] = <<nullopt>>
                     /\ Val2(initial) < NumSteps
                     /\ Len(trace[r]) = Val2(initial) + 1

C9_Witness ==
    /\ n = NumSteps
    /\ initial = -2048
    /\ \E r \in Runs : Done(r) /\ result[r] = <<Present(-2)>>

\* C10: while the current value is Present(v) after k invocations of half,
\* v * 2^k = initial (stated as: 2^k divides initial with quotient v, which
\* needs no product beyond the int range), |v| <= |initial|, and v is an int.
C10_ExactScaling ==
    \A r \in Runs :
        current[r].has_value =>
            LET v == current[r].value
                k == Len(trace[r])
            IN  /\ initial % Pow2(k) = 0
                /\ initial \div Pow2(k) = v
                /\ NegAbs(v) >= NegAbs(initial)
                /\ v \in INT_MIN..INT_MAX

C10_Witness ==
    \E r \in Runs :
        /\ current[r].has_value
        /\ Len(trace[r]) >= 3
        /\ initial < 0
        /\ current[r].value * 8 = initial

====
